---- MODULE Spec2Model ----
(***************************************************************************)
(* Model of src/main.rs: the block-cache log analyser.                     *)
(*                                                                         *)
(* parse() turns one text block into events, main() aggregates the events  *)
(* of all blocks, sorts them newest first, writes them out while recording *)
(* eviction times, and then correlates every miss with the recorded        *)
(* eviction time of its block.                                             *)
(*                                                                         *)
(* Unsigned 64-bit values do not fit the integers of the model checker, so *)
(* a u64 (sst, blk, seconds) is a decimal numeral: a non-empty sequence of *)
(* digits, most significant first, without leading zeros.  Sub-second      *)
(* nanoseconds (< 10^9) are plain integers.                                *)
(***************************************************************************)
EXTENDS Integers, Sequences, FiniteSets, TLC

VARIABLES pc, records, evicted_times, row, out, duration_out,
          long, short, none, fatal, block, parsed

vars == <<pc, records, evicted_times, row, out, duration_out,
          long, short, none, fatal, block, parsed>>

(***************************************************************************)
(* Bounds of the exploration.                                              *)
(***************************************************************************)
\* most events the aggregated stream holds
MaxRecords == 3
\* most pattern matches / junk fragments in one text block
MaxFragments == 2

(***************************************************************************)
(* Decimal numerals.                                                       *)
(***************************************************************************)
\* a character class \d match that is not an ASCII digit (the regex crate's
\* \d is Unicode aware); str::parse rejects it
NonAsciiDigit == 10

D0 == <<0>>

\* drops leading zeros; the numeral of zero is <<0>>
RECURSIVE Normalize(_)
Normalize(ds) ==
    IF Len(ds) <= 1 THEN ds
    ELSE IF Head(ds) = 0 THEN Normalize(Tail(ds)) ELSE ds

\* lexicographic order of two equally long digit sequences
RECURSIVE LexLess(_, _)
LexLess(a, b) ==
    IF a = <<>> THEN FALSE
    ELSE IF Head(a) # Head(b) THEN Head(a) < Head(b)
    ELSE LexLess(Tail(a), Tail(b))

\* a < b on normalized numerals
DecLess(a, b) ==
    \/ Len(a) < Len(b)
    \/ Len(a) = Len(b) /\ LexLess(a, b)

DecLeq(a, b) == a = b \/ DecLess(a, b)

Rev(s) == [i \in 1..Len(s) |-> s[Len(s) + 1 - i]]

\* digit of a little-endian digit sequence, zero beyond its end
DigitAt(r, i) == IF i <= Len(r) THEN r[i] ELSE 0

\* schoolbook addition on little-endian digits
RECURSIVE AddLE(_, _, _, _)
AddLE(a, b, i, carry) ==
    IF i > Len(a) /\ i > Len(b)
    THEN IF carry = 0 THEN <<>> ELSE <<carry>>
    ELSE LET t == DigitAt(a, i) + DigitAt(b, i) + carry
         IN  <<t % 10>> \o AddLE(a, b, i + 1, t \div 10)

DecAdd(a, b) == Normalize(Rev(AddLE(Rev(a), Rev(b), 1, 0)))

\* schoolbook subtraction on little-endian digits, a >= b
RECURSIVE SubLE(_, _, _, _)
SubLE(a, b, i, borrow) ==
    IF i > Len(a) THEN <<>>
    ELSE LET t == DigitAt(a, i) - DigitAt(b, i) - borrow
         IN  IF t < 0 THEN <<t + 10>> \o SubLE(a, b, i + 1, 1)
                      ELSE <<t>> \o SubLE(a, b, i + 1, 0)

DecSub(a, b) == Normalize(Rev(SubLE(Rev(a), Rev(b), 1, 0)))

\* value of a numeral of at most 9 digits as an integer
RECURSIVE DecToInt(_)
DecToInt(ds) ==
    IF ds = <<>> THEN 0
    ELSE DecToInt(SubSeq(ds, 1, Len(ds) - 1)) * 10 + ds[Len(ds)]

\* the 9 digits of 999,999,999
Nines == [i \in 1..9 |-> 9]

(***************************************************************************)
(* Integer widths and time constants.                                      *)
(***************************************************************************)
\* u64::MAX = 18,446,744,073,709,551,615
U64_MAX == <<1,8,4,4,6,7,4,4,0,7,3,7,0,9,5,5,1,6,1,5>>
\* u32::MAX = 4,294,967,295
U32_MAX == <<4,2,9,4,9,6,7,2,9,5>>
\* i64::MAX = 9,223,372,036,854,775,807: the seconds of a SystemTime
I64_MAX == <<9,2,2,3,3,7,2,0,3,6,8,5,4,7,7,5,8,0,7>>
\* nanoseconds in a second, as core::time defines it
NANOS_PER_SEC == 1000000000
\* number of decimal digits dropped by a division by NANOS_PER_SEC
NANOS_DIGITS == 9
\* last second chrono's DateTime can represent (+262142-12-31T23:59:59)
CHRONO_MAX_SECS == <<8,2,1,0,2,6,6,8,7,6,7,9,9>>
\* threshold of the short / long classification, in seconds
ShortLimitSecs == <<1,0>>

Ok(v) == [ok |-> TRUE, val |-> v]
Err(e) == [ok |-> FALSE, err |-> e]

(***************************************************************************)
(* parse(): the event extractor.                                           *)
(*                                                                         *)
(* A text block is [evicted, missed, text]: whether it contains each of    *)
(* the two section markers, and the fragments of its text in textual       *)
(* order.  A fragment is either one match of the event pattern, given by   *)
(* its four captured digit strings, or Junk, text the pattern skips.       *)
(***************************************************************************)
Junk == [matched |-> FALSE]

Capture(sst, blk, tv_sec, tv_nsec) ==
    [matched |-> TRUE, sst |-> sst, blk |-> blk,
     tv_sec |-> tv_sec, tv_nsec |-> tv_nsec]

\* the matches of the pattern, left to right
CapturesIter(text) == SelectSeq(text, LAMBDA f : f.matched)

\* str::parse::<uN>: digit by digit, acc * 10 + d with overflow checks
RECURSIVE ParseFrom(_, _, _, _)
ParseFrom(cap, i, acc, max) ==
    IF i > Len(cap) THEN Ok(acc)
    ELSE IF cap[i] = NonAsciiDigit THEN Err("InvalidDigit")
    ELSE LET nxt == Normalize(Append(acc, cap[i]))
         IN  IF DecLeq(nxt, max) THEN ParseFrom(cap, i + 1, nxt, max)
             ELSE Err("PosOverflow")

ParseU64(cap) == ParseFrom(cap, 1, D0, U64_MAX)

ParseU32(cap) == ParseFrom(cap, 1, D0, U32_MAX)

\* nanos / NANOS_PER_SEC of a u32 numeral
NanosDiv(n) ==
    IF Len(n) <= NANOS_DIGITS THEN D0
    ELSE Normalize(SubSeq(n, 1, Len(n) - NANOS_DIGITS))

\* nanos % NANOS_PER_SEC of a u32 numeral
NanosMod(n) ==
    IF Len(n) <= NANOS_DIGITS THEN DecToInt(n)
    ELSE DecToInt(SubSeq(n, Len(n) - NANOS_DIGITS + 1, Len(n)))

\* Duration::new that drops the whole seconds of nanos
DurationNew_DropCarry(secs, nanos) ==
    Ok([secs |-> secs, nanos |-> NanosMod(nanos)])

\* Duration::new(secs, nanos): whole seconds of nanos carry into secs
DurationNew(secs, nanos) ==
    IF DecLeq(nanos, Nines)
    THEN Ok([secs |-> secs, nanos |-> DecToInt(nanos)])
    ELSE LET s == DecAdd(secs, NanosDiv(nanos))
         IN  IF DecLeq(s, U64_MAX)
             THEN Ok([secs |-> s, nanos |-> NanosMod(nanos)])
             ELSE Err("overflow in Duration::new")

UNIX_EPOCH == [secs |-> D0, nanos |-> 0]

\* UNIX_EPOCH + duration: the seconds of a SystemTime are an i64
EpochPlus(d) ==
    IF DecLeq(d.secs, I64_MAX) THEN Ok(d)
    ELSE Err("overflow when adding duration to instant")

\* one iteration of the loop over the matches
ParseCapture(cap, op) ==
    LET sst == ParseU64(cap.sst)
        blk == ParseU64(cap.blk)
        tv_sec == ParseU64(cap.tv_sec)
        tv_nsec == ParseU32(cap.tv_nsec)
    IN  IF ~sst.ok THEN sst
        ELSE IF ~blk.ok THEN blk
        ELSE IF ~tv_sec.ok THEN tv_sec
        ELSE IF ~tv_nsec.ok THEN tv_nsec
        ELSE LET d == DurationNew(tv_sec.val, tv_nsec.val)
             IN  IF ~d.ok THEN d
                 ELSE LET system_time == EpochPlus(d.val)
                      IN  IF ~system_time.ok THEN system_time
                          ELSE Ok([data |-> [sst |-> sst.val, blk |-> blk.val],
                                   time |-> system_time.val,
                                   op |-> op])

RECURSIVE ParseLoop(_, _, _)
ParseLoop(caps, op, res) ==
    IF caps = <<>> THEN Ok(res)
    ELSE LET e == ParseCapture(Head(caps), op)
         IN  IF e.ok THEN ParseLoop(Tail(caps), op, Append(res, e.val))
             ELSE e

\* SectionOp that looks for the MISSED marker first
SectionOp_MissedFirst(s) ==
    IF s.missed THEN "Missed"
    ELSE IF s.evicted THEN "Evicted"
    ELSE "None"

\* the section kind of a block
SectionOp(s) ==
    IF s.evicted THEN "Evicted"
    ELSE IF s.missed THEN "Missed"
    ELSE "None"

Parse(s) ==
    IF SectionOp(s) = "None" THEN Ok(<<>>)
    ELSE ParseLoop(CapturesIter(s.text), SectionOp(s), <<>>)

(***************************************************************************)
(* Time arithmetic of main().                                              *)
(***************************************************************************)
\* a < b on SystemTime
TimeLess(a, b) ==
    \/ DecLess(a.secs, b.secs)
    \/ a.secs = b.secs /\ a.nanos < b.nanos

\* self.duration_since(earlier): Err when earlier is later than self
DurationSince(self, earlier) ==
    IF TimeLess(self, earlier) THEN Err("SystemTimeError")
    ELSE IF self.nanos >= earlier.nanos
    THEN Ok([secs |-> DecSub(self.secs, earlier.secs),
             nanos |-> self.nanos - earlier.nanos])
    ELSE Ok([secs |-> DecSub(DecSub(self.secs, earlier.secs), <<1>>),
             nanos |-> self.nanos + NANOS_PER_SEC - earlier.nanos])

\* Local.timestamp_opt(secs, nanos): None outside chrono's range
TimestampOpt(d) ==
    IF DecLeq(d.secs, CHRONO_MAX_SECS) THEN Ok(d)
    ELSE Err("No such local time")

\* the local date and time of a SystemTime, as lines 98-106 and 135-143
\* compute it
LocalDateTime(system_time) ==
    LET d == DurationSince(system_time, UNIX_EPOCH)
    IN  IF ~d.ok THEN d ELSE TimestampOpt(d.val)

\* IsShort with <= 10.0 for < 10.0
IsShort_Inclusive(duration) ==
    \/ DecLess(duration.secs, ShortLimitSecs)
    \/ duration.secs = ShortLimitSecs /\ duration.nanos = 0

\* duration.as_secs_f64() < 10.0; the fraction nanos / 10^9 is below one
\* and nine decimals are exact enough in a double not to round up to 10.0
IsShort(duration) == DecLess(duration.secs, ShortLimitSecs)

(***************************************************************************)
(* records.sort_by_key with the key Reverse(time): a stable sort,          *)
(* ascending in Reverse(time), that is newest first.                       *)
(***************************************************************************)
\* KeyLess without the Reverse: oldest first
KeyLess_Ascending(a, b) == TimeLess(a.time, b.time)

\* Reverse(a) < Reverse(b)
KeyLess(a, b) == TimeLess(b.time, a.time)

\* InsertSorted that puts e before the elements of equal key
RECURSIVE InsertSorted_Unstable(_, _)
InsertSorted_Unstable(sorted, e) ==
    IF sorted = <<>> THEN <<e>>
    ELSE IF ~KeyLess(Head(sorted), e) THEN <<e>> \o sorted
    ELSE <<Head(sorted)>> \o InsertSorted_Unstable(Tail(sorted), e)

\* e goes before the first element whose key is greater than its own
RECURSIVE InsertSorted(_, _)
InsertSorted(sorted, e) ==
    IF sorted = <<>> THEN <<e>>
    ELSE IF KeyLess(e, Head(sorted)) THEN <<e>> \o sorted
    ELSE <<Head(sorted)>> \o InsertSorted(Tail(sorted), e)

RECURSIVE SortFrom(_, _, _)
SortFrom(s, i, acc) ==
    IF i > Len(s) THEN acc
    ELSE SortFrom(s, i + 1, InsertSorted(acc, s[i]))

SortByKey(s) == SortFrom(s, 1, <<>>)

(***************************************************************************)
(* The eviction index and the correlation of one miss.                     *)
(***************************************************************************)
\* the (sst, blk) key of the map
KeyOf(data) == <<data.sst, data.blk>>

\* evicted_times.insert(key, time)
MapInsert(m, k, t) ==
    [x \in DOMAIN m \cup {k} |-> IF x = k THEN t ELSE m[x]]

\* StoreEvicted that keeps the entry a key already has
StoreEvicted_KeepFirst(m, rec) ==
    IF rec.op = "Evicted" /\ KeyOf(rec.data) \notin DOMAIN m
    THEN MapInsert(m, KeyOf(rec.data), rec.time)
    ELSE m

\* StoreEvicted without the test of the event kind
StoreEvicted_AnyOp(m, rec) == MapInsert(m, KeyOf(rec.data), rec.time)

\* lines 120-122
StoreEvicted(m, rec) ==
    IF rec.op = "Evicted" THEN MapInsert(m, KeyOf(rec.data), rec.time) ELSE m

\* Branch with the comparison of line 146 the other way round
Branch_Flipped(m, rec) ==
    IF KeyOf(rec.data) \in DOMAIN m
    THEN IF TimeLess(m[KeyOf(rec.data)], rec.time) THEN "Inverted"
         ELSE "Resolved"
    ELSE "Unmatched"

\* which of the three branches of lines 145-177 a miss takes
Branch(m, rec) ==
    IF KeyOf(rec.data) \in DOMAIN m
    THEN IF TimeLess(rec.time, m[KeyOf(rec.data)]) THEN "Inverted"
         ELSE "Resolved"
    ELSE "Unmatched"

\* the duration computed in the branch: the receiver of duration_since is
\* the eviction time when inverted and the miss time when resolved
BranchDuration(m, rec) ==
    IF Branch(m, rec) = "Inverted"
    THEN DurationSince(m[KeyOf(rec.data)], rec.time)
    ELSE DurationSince(rec.time, m[KeyOf(rec.data)])

\* the line written to the duration file for a miss
DurationLine(m, rec, miss) ==
    IF Branch(m, rec) = "Unmatched"
    THEN [data |-> rec.data, kind |-> "Unmatched", miss |-> miss]
    ELSE IF Branch(m, rec) = "Inverted"
    THEN [data |-> rec.data, kind |-> "Inverted", miss |-> miss,
          delta |-> BranchDuration(m, rec).val]
    ELSE [data |-> rec.data, kind |-> "Resolved", miss |-> miss,
          delta |-> BranchDuration(m, rec).val,
          suffix |-> IF IsShort(BranchDuration(m, rec).val)
                     THEN "!!!!!!!!!!" ELSE ""]

\* Counter that counts an inverted miss as a short one
Counter_InvertedShort(m, rec) ==
    IF Branch(m, rec) = "Unmatched" THEN "none"
    ELSE IF Branch(m, rec) = "Inverted" THEN "short"
    ELSE IF IsShort(BranchDuration(m, rec).val) THEN "short" ELSE "long"

\* the counter a miss increments: "short", "long", "none" or "" for no one
Counter(m, rec) ==
    IF Branch(m, rec) = "Unmatched" THEN "none"
    ELSE IF Branch(m, rec) = "Inverted" THEN ""
    ELSE IF IsShort(BranchDuration(m, rec).val) THEN "short" ELSE "long"

(***************************************************************************)
(* The inputs explored.                                                    *)
(***************************************************************************)
D999999999 == Nines
D1000000000 == <<1,0,0,0,0,0,0,0,0,0>>

\* well-formed event lines: the blocks (1, 7) and (2, 7) at 5.999999999 s,
\* 6 s, 15.999999999 s and 16 s after the epoch
NormalCaptures ==
    { Capture(sst, <<7>>, tv_sec, tv_nsec) :
        sst \in {<<1>>, <<2>>},
        tv_sec \in {<<5>>, <<1,5>>},
        tv_nsec \in {D999999999, D1000000000} }

\* event lines at the edges of the integer widths
EdgeCaptures ==
    { Capture(<<0,1>>, <<7>>, <<5>>, D999999999),
      Capture(DecAdd(U64_MAX, <<1>>), <<7>>, <<5>>, <<0>>),
      Capture(<<1>>, DecAdd(U64_MAX, <<1>>), <<5>>, <<0>>),
      Capture(<<1>>, <<7>>, DecAdd(U64_MAX, <<1>>), <<0>>),
      Capture(<<1>>, <<7>>, U64_MAX, D1000000000),
      Capture(<<1>>, <<7>>, DecAdd(I64_MAX, <<1>>), <<0>>),
      Capture(<<1>>, <<7>>, I64_MAX, <<0>>),
      Capture(<<1>>, <<7>>, <<5>>, U32_MAX),
      Capture(<<1>>, <<7>>, <<5>>, DecAdd(U32_MAX, <<1>>)),
      Capture(<<1>>, <<7>>, <<5, NonAsciiDigit>>, <<0>>) }

RECURSIVE SeqsUpTo(_, _)
SeqsUpTo(S, n) ==
    IF n = 0 THEN {<<>>}
    ELSE LET shorter == SeqsUpTo(S, n - 1)
         IN  shorter \cup {Append(q, x) : q \in shorter, x \in S}

BlocksOver(F) ==
    [evicted : BOOLEAN, missed : BOOLEAN, text : SeqsUpTo(F, MaxFragments)]

\* the text blocks given to parse() on its own
ParseBlocks == BlocksOver(NormalCaptures \cup EdgeCaptures \cup {Junk})

\* the text blocks of the records main() reads: the well-formed lines, a
\* block number with a leading zero, the largest nanosecond field, a line
\* parse() panics on and a line whose time has no local date
Blocks ==
    BlocksOver(NormalCaptures
               \cup { Junk,
                      Capture(<<0,1>>, <<7>>, <<5>>, D999999999),
                      Capture(<<1>>, <<7>>, <<5>>, U32_MAX),
                      Capture(<<1>>, <<7>>, <<5>>, DecAdd(U32_MAX, <<1>>)),
                      Capture(<<1>>, <<7>>, I64_MAX, <<0>>) })

\* what parse() returns for the blocks of Blocks
ParsedBlocks == {Parse(record) : record \in Blocks}

NoBlock == [evicted |-> FALSE, missed |-> FALSE, text |-> <<>>]
Pending == [ok |-> FALSE, err |-> "pending"]
EmptyMap == [x \in {} |-> UNIX_EPOCH]

(***************************************************************************)
(* main(): one action per loop iteration or straight-line step.            *)
(***************************************************************************)
Init ==
    /\ pc = "read"
    /\ records = <<>>
    /\ evicted_times = EmptyMap
    /\ row = 0
    /\ out = <<>>
    /\ duration_out = <<>>
    /\ long = 0
    /\ short = 0
    /\ none = 0
    /\ fatal = ""
    /\ block = NoBlock
    /\ parsed = Pending

\* a panic: the run ends at once
Abort(reason) ==
    /\ pc' = "aborted"
    /\ fatal' = reason

\* lines 78-86: one CSV record is parsed and its events are appended
ReadRecord ==
    /\ pc = "read"
    /\ Len(records) < MaxRecords
    /\ \E rs \in ParsedBlocks :
         /\ rs.ok
         /\ Len(records) + Len(rs.val) <= MaxRecords
         /\ records' = records \o rs.val
    /\ UNCHANGED <<pc, evicted_times, row, out, duration_out,
                   long, short, none, fatal, block, parsed>>

\* lines 78-80: parse() panics on a record
ReadRecordPanic ==
    /\ pc = "read"
    /\ Len(records) < MaxRecords
    /\ \E rs \in ParsedBlocks :
         /\ ~rs.ok
         /\ Abort(rs.err)
    /\ UNCHANGED <<records, evicted_times, row, out, duration_out,
                   long, short, none, block, parsed>>

\* lines 90-94: the input is exhausted, the records are sorted
Sort ==
    /\ pc = "read"
    /\ records' = SortByKey(records)
    /\ pc' = "write"
    /\ row' = 0
    /\ UNCHANGED <<evicted_times, out, duration_out,
                   long, short, none, fatal, block, parsed>>

\* lines 96-123: one record is written and, if evicted, stored
WriteRecord ==
    /\ pc = "write"
    /\ row < Len(records)
    /\ LET rec == records[row + 1]
           datetime == LocalDateTime(rec.time)
       IN  /\ datetime.ok
           /\ out' = Append(out, [data |-> rec.data,
                                  datetime |-> datetime.val,
                                  op |-> rec.op])
           /\ evicted_times' = StoreEvicted(evicted_times, rec)
           /\ row' = row + 1
    /\ UNCHANGED <<pc, records, duration_out, long, short, none,
                   fatal, block, parsed>>

\* lines 98-106: the time of a record has no local date
WriteRecordPanic ==
    /\ pc = "write"
    /\ row < Len(records)
    /\ LET datetime == LocalDateTime(records[row + 1].time)
       IN  /\ ~datetime.ok
           /\ Abort(datetime.err)
    /\ UNCHANGED <<records, evicted_times, row, out, duration_out,
                   long, short, none, block, parsed>>

\* lines 125-131: the duration file is created, the counters start at zero
StartCorrelate ==
    /\ pc = "write"
    /\ row = Len(records)
    /\ pc' = "correlate"
    /\ row' = 0
    /\ long' = 0
    /\ short' = 0
    /\ none' = 0
    /\ UNCHANGED <<records, evicted_times, out, duration_out, fatal, block, parsed>>

\* lines 133-179: an evicted record is passed over
SkipEvicted ==
    /\ pc = "correlate"
    /\ row < Len(records)
    /\ records[row + 1].op # "Missed"
    /\ row' = row + 1
    /\ UNCHANGED <<pc, records, evicted_times, out, duration_out,
                   long, short, none, fatal, block, parsed>>

\* the first unwrap of lines 135-154 that fails for a miss, "" if none
MissPanic(m, rec) ==
    IF ~LocalDateTime(rec.time).ok THEN LocalDateTime(rec.time).err
    ELSE IF Branch(m, rec) # "Unmatched" /\ ~BranchDuration(m, rec).ok
    THEN BranchDuration(m, rec).err
    ELSE ""

\* lines 133-179: a missed record is correlated
CorrelateMiss ==
    /\ pc = "correlate"
    /\ row < Len(records)
    /\ LET rec == records[row + 1]
       IN  /\ rec.op = "Missed"
           /\ IF MissPanic(evicted_times, rec) # ""
              THEN /\ Abort(MissPanic(evicted_times, rec))
                   /\ UNCHANGED <<duration_out, long, short, none, row>>
              ELSE /\ duration_out' =
                        Append(duration_out,
                               DurationLine(evicted_times, rec,
                                            LocalDateTime(rec.time).val))
                   /\ long' = long + (IF Counter(evicted_times, rec) = "long"
                                      THEN 1 ELSE 0)
                   /\ short' = short + (IF Counter(evicted_times, rec) = "short"
                                        THEN 1 ELSE 0)
                   /\ none' = none + (IF Counter(evicted_times, rec) = "none"
                                      THEN 1 ELSE 0)
                   /\ row' = row + 1
                   /\ UNCHANGED <<pc, fatal>>
    /\ UNCHANGED <<records, evicted_times, out, block, parsed>>

\* lines 181-187: the summary line
Finish ==
    /\ pc = "correlate"
    /\ row = Len(records)
    /\ duration_out' = Append(duration_out,
                              [kind |-> "Summary", long |-> long,
                               short |-> short, none |-> none])
    /\ pc' = "done"
    /\ UNCHANGED <<records, evicted_times, row, out,
                   long, short, none, fatal, block, parsed>>

Next ==
    \/ ReadRecord
    \/ ReadRecordPanic
    \/ Sort
    \/ WriteRecord
    \/ WriteRecordPanic
    \/ StartCorrelate
    \/ SkipEvicted
    \/ CorrelateMiss
    \/ Finish

Spec == Init /\ [][Next]_vars

(***************************************************************************)
(* parse() on its own: the argument is drawn, the function is applied.     *)
(***************************************************************************)
InitParse ==
    /\ pc = "parse"
    /\ records = <<>>
    /\ evicted_times = EmptyMap
    /\ row = 0
    /\ out = <<>>
    /\ duration_out = <<>>
    /\ long = 0
    /\ short = 0
    /\ none = 0
    /\ fatal = ""
    /\ block \in ParseBlocks
    /\ parsed = Pending

CallParse ==
    /\ pc = "parse"
    /\ parsed' = Parse(block)
    /\ pc' = "returned"
    /\ UNCHANGED <<records, evicted_times, row, out, duration_out,
                   long, short, none, fatal, block>>

NextParse == CallParse

SpecParse == InitParse /\ [][NextParse]_vars

(***************************************************************************)
(* Vocabulary of the properties.                                           *)
(***************************************************************************)
\* the index pass of lines 96-123 has consumed the whole stream
IndexComplete == pc \in {"correlate", "done"}

\* positions of the Evicted events of key k in the stream
EvictionsOf(k) ==
    {i \in 1..Len(records) :
        records[i].op = "Evicted" /\ KeyOf(records[i].data) = k}

\* the record the correlation loop is at, when it is a miss
AtMiss ==
    /\ pc = "correlate"
    /\ row < Len(records)
    /\ records[row + 1].op = "Missed"

\* the correlation loop wrote one more line and went on
MissReported ==
    /\ pc' = "correlate"
    /\ row' = row + 1
    /\ Len(duration_out') = Len(duration_out) + 1

\* t + d for a time t and a duration d
TimePlus(t, d) ==
    IF t.nanos + d.nanos >= NANOS_PER_SEC
    THEN [secs |-> DecAdd(DecAdd(t.secs, d.secs), <<1>>),
          nanos |-> t.nanos + d.nanos - NANOS_PER_SEC]
    ELSE [secs |-> DecAdd(t.secs, d.secs), nanos |-> t.nanos + d.nanos]

TenSeconds == [secs |-> <<1,0>>, nanos |-> 0]

TimeLeq(a, b) == ~TimeLess(b, a)

\* the lines of the duration file that report a miss
MissLines == SelectSeq(duration_out, LAMBDA l : l.kind # "Summary")

\* the Missed events of the stream, in scan order
Misses == SelectSeq(records, LAMBDA r : r.op = "Missed")

(***************************************************************************)
(* C1.  Once the sorted stream is fully scanned, the index entry of every  *)
(* key that has an Evicted event is the earliest timestamp among the       *)
(* Evicted events of that key.                                             *)
(***************************************************************************)
C1_EarliestEvictionWins ==
    IndexComplete =>
        \A i \in 1..Len(records) :
            records[i].op = "Evicted" =>
                LET k == KeyOf(records[i].data)
                IN  /\ k \in DOMAIN evicted_times
                    /\ \E j \in EvictionsOf(k) :
                           records[j].time = evicted_times[k]
                    /\ \A j \in EvictionsOf(k) :
                           TimeLeq(evicted_times[k], records[j].time)

\* a key evicted at two different times has been indexed
C1_Witness ==
    /\ pc = "done"
    /\ \E i, j \in 1..Len(records) :
          /\ records[i].op = "Evicted"
          /\ j \in EvictionsOf(KeyOf(records[i].data))
          /\ TimeLess(records[j].time, records[i].time)

(***************************************************************************)
(* C2.  A miss whose key is indexed at or before the time of the miss is   *)
(* reported with delta = t_miss - t_evict and increments exactly one       *)
(* counter: short when delta < 10 s, long when delta >= 10 s.              *)
(***************************************************************************)
C2_ResolvedStep ==
    (/\ AtMiss
     /\ KeyOf(records[row + 1].data) \in DOMAIN evicted_times
     /\ TimeLeq(evicted_times[KeyOf(records[row + 1].data)],
                records[row + 1].time))
    => LET t_miss == records[row + 1].time
           t_evict == evicted_times[KeyOf(records[row + 1].data)]
           line == duration_out'[Len(duration_out')]
       IN  /\ MissReported
           /\ line.kind = "Resolved"
           /\ TimePlus(t_evict, line.delta) = t_miss
           /\ IF TimeLess(t_miss, TimePlus(t_evict, TenSeconds))
              THEN /\ short' = short + 1
                   /\ long' = long
                   /\ none' = none
                   /\ line.suffix = "!!!!!!!!!!"
              ELSE /\ long' = long + 1
                   /\ short' = short
                   /\ none' = none
                   /\ line.suffix = ""

C2_ResolvedShortOrLong == [][C2_ResolvedStep]_vars

\* a miss 9.999999999 s and a miss exactly 10 s after the eviction
C2_Witness ==
    /\ pc = "done"
    /\ \E i, j \in 1..Len(MissLines) :
          /\ MissLines[i].kind = "Resolved"
          /\ MissLines[i].delta = [secs |-> <<9>>, nanos |-> 999999999]
          /\ MissLines[i].suffix = "!!!!!!!!!!"
          /\ MissLines[j].kind = "Resolved"
          /\ MissLines[j].delta = TenSeconds
          /\ MissLines[j].suffix = ""
    /\ short = 1
    /\ long = 1

(***************************************************************************)
(* C3.  A miss whose key is indexed after the time of the miss is reported *)
(* Inverted with the positive delta index[K] - t_miss, and no counter      *)
(* changes.                                                                *)
(***************************************************************************)
C3_InvertedStep ==
    (/\ AtMiss
     /\ KeyOf(records[row + 1].data) \in DOMAIN evicted_times
     /\ TimeLess(records[row + 1].time,
                 evicted_times[KeyOf(records[row + 1].data)]))
    => LET t_miss == records[row + 1].time
           t_evict == evicted_times[KeyOf(records[row + 1].data)]
           line == duration_out'[Len(duration_out')]
       IN  /\ MissReported
           /\ line.kind = "Inverted"
           /\ TimePlus(t_miss, line.delta) = t_evict
           /\ line.delta # [secs |-> D0, nanos |-> 0]
           /\ long' = long
           /\ short' = short
           /\ none' = none

C3_InvertedLeavesCounters == [][C3_InvertedStep]_vars

\* an inverted miss was reported and the tally is still empty
C3_Witness ==
    /\ pc = "done"
    /\ \E i \in 1..Len(MissLines) : MissLines[i].kind = "Inverted"
    /\ long = 0
    /\ short = 0
    /\ none = 0

(***************************************************************************)
(* C4.  A miss is reported Unmatched exactly when the whole stream holds   *)
(* no Evicted event of its key; an Unmatched report adds one to none and   *)
(* leaves long and short alone.                                            *)
(***************************************************************************)
C4_UnmatchedStep ==
    AtMiss
    => LET line == duration_out'[Len(duration_out')]
       IN  /\ MissReported
           /\ line.kind = "Unmatched"
                <=> EvictionsOf(KeyOf(records[row + 1].data)) = {}
           /\ line.kind = "Unmatched"
                => /\ none' = none + 1
                   /\ long' = long
                   /\ short' = short

C4_UnmatchedIffNeverEvicted == [][C4_UnmatchedStep]_vars

\* an unmatched miss next to an eviction of the other block, and a matched
\* miss that is scanned before the eviction of its block
C4_Witness ==
    /\ pc = "done"
    /\ \E i, j \in 1..Len(MissLines) :
          /\ MissLines[i].kind = "Unmatched"
          /\ MissLines[j].kind = "Resolved"
          /\ MissLines[j].delta # [secs |-> D0, nanos |-> 0]
    /\ none = 1

(***************************************************************************)
(* C5.  The sorted stream is a permutation of the aggregated stream, with  *)
(* timestamps descending, and events of equal timestamp keep the relative  *)
(* order they had before the sort.                                         *)
(***************************************************************************)
Rearrangements(n) ==
    {p \in [1..n -> 1..n] : \A i, j \in 1..n : i # j => p[i] # p[j]}

\* after[i] = before[p[i]] for a rearrangement p that never lets a later
\* time come first and never swaps two events of equal time
IsStableDescendingSort(before, after) ==
    /\ Len(after) = Len(before)
    /\ \E p \in Rearrangements(Len(before)) :
          /\ \A i \in 1..Len(before) : after[i] = before[p[i]]
          /\ \A i, j \in 1..Len(before) :
                i < j => /\ TimeLeq(after[j].time, after[i].time)
                         /\ after[i].time = after[j].time => p[i] < p[j]

C5_SortStep ==
    (pc = "read" /\ pc' = "write")
    => IsStableDescendingSort(records, records')

C5_StableDescendingSort == [][C5_SortStep]_vars

\* a sorted stream with two different events of the same time and an
\* older event after them
C5_Witness ==
    /\ pc = "write"
    /\ row = 0
    /\ Len(records) = 3
    /\ records[1].time = records[2].time
    /\ records[1] # records[2]
    /\ TimeLess(records[3].time, records[2].time)

(***************************************************************************)
(* C6.  A single pass over the sorted stream that updates the index and    *)
(* correlates each miss as it reaches it writes the same lines and the     *)
(* same tally as the two passes of main().                                 *)
(***************************************************************************)
\* the single pass: st is the index, the lines and the counters so far
RECURSIVE CombinedFrom(_, _, _)
CombinedFrom(recs, i, st) ==
    IF i > Len(recs)
    THEN Append(st.lines, [kind |-> "Summary", long |-> st.long,
                           short |-> st.short, none |-> st.none])
    ELSE LET rec == recs[i]
             k == KeyOf(rec.data)
             c == Counter(st.m, rec)
         IN  IF rec.op = "Evicted"
             THEN CombinedFrom(recs, i + 1,
                      [st EXCEPT !.m = [x \in DOMAIN st.m \cup {k} |->
                                           IF x = k THEN rec.time
                                           ELSE st.m[x]]])
             ELSE CombinedFrom(recs, i + 1,
                      [st EXCEPT
                          !.lines = Append(@, DurationLine(st.m, rec,
                                               LocalDateTime(rec.time).val)),
                          !.long = @ + (IF c = "long" THEN 1 ELSE 0),
                          !.short = @ + (IF c = "short" THEN 1 ELSE 0),
                          !.none = @ + (IF c = "none" THEN 1 ELSE 0)])

CombinedPass(recs) ==
    CombinedFrom(recs, 1, [m |-> EmptyMap, lines |-> <<>>,
                           long |-> 0, short |-> 0, none |-> 0])

\* the claim as stated: on every sorted stream
C6_CombinedPassEquivalent ==
    pc = "done" => CombinedPass(records) = duration_out

\* no Evicted event comes later in the scan than a Missed event of its key
NoEvictionAfterMiss ==
    \A i, j \in 1..Len(records) :
        (/\ i < j
         /\ records[i].op = "Missed"
         /\ records[j].op = "Evicted")
        => KeyOf(records[i].data) # KeyOf(records[j].data)

\* C6 as amended: the single pass agrees with the two passes on the sorted
\* streams in which no eviction of a key is scanned after a miss of it
C6_CombinedPassEquivalentIfEvictionsFirst ==
    (pc = "done" /\ NoEvictionAfterMiss)
    => CombinedPass(records) = duration_out

\* a miss scanned after two evictions of its key at different times
C6_Witness ==
    /\ pc = "done"
    /\ NoEvictionAfterMiss
    /\ Len(records) = 3
    /\ records[3].op = "Missed"
    /\ EvictionsOf(KeyOf(records[3].data)) = {1, 2}
    /\ TimeLess(records[2].time, records[1].time)
    /\ MissLines[1].kind = "Inverted"

(***************************************************************************)
(* C7.  No duration computation of the correlation fails: the receiver of  *)
(* each duration_since is the later of the two times, also when the two    *)
(* times are equal.                                                        *)
(***************************************************************************)
C7_NoTimeArithmeticPanic ==
    /\ fatal # "SystemTimeError"
    /\ (/\ AtMiss
        /\ KeyOf(records[row + 1].data) \in DOMAIN evicted_times)
       => LET t_miss == records[row + 1].time
              t_evict == evicted_times[KeyOf(records[row + 1].data)]
          IN  /\ DurationSince(t_miss, UNIX_EPOCH).ok
              /\ IF TimeLess(t_miss, t_evict)
                 THEN Branch(evicted_times, records[row + 1]) = "Inverted"
                 ELSE Branch(evicted_times, records[row + 1]) = "Resolved"
              /\ BranchDuration(evicted_times, records[row + 1]).ok

\* a miss at the very time of the eviction and an earlier, inverted miss
C7_Witness ==
    /\ pc = "done"
    /\ fatal = ""
    /\ \E i, j \in 1..Len(MissLines) :
          /\ MissLines[i].kind = "Resolved"
          /\ MissLines[i].delta = [secs |-> D0, nanos |-> 0]
          /\ MissLines[j].kind = "Inverted"

(***************************************************************************)
(* C8.  parse() returns nothing for a block without a section marker; for  *)
(* a block with one it returns one event per match, in textual order, all  *)
(* of the kind of the marker: Evicted when the EVICTED marker is there,    *)
(* Missed when only the MISSED marker is.                                  *)
(***************************************************************************)
C8_MarkerDecidesKind ==
    pc = "returned" =>
        /\ (~block.evicted /\ ~block.missed) => parsed = Ok(<<>>)
        /\ ((block.evicted \/ block.missed) /\ parsed.ok) =>
              /\ Len(parsed.val) = Len(CapturesIter(block.text))
              /\ \A i \in 1..Len(parsed.val) :
                    /\ parsed.val[i].op =
                          (IF block.evicted THEN "Evicted" ELSE "Missed")
                    /\ parsed.val[i].data =
                          [sst |-> Normalize(CapturesIter(block.text)[i].sst),
                           blk |-> Normalize(CapturesIter(block.text)[i].blk)]

\* a block with both markers and two different event lines
C8_Witness ==
    /\ pc = "returned"
    /\ block.evicted
    /\ block.missed
    /\ parsed.ok
    /\ Len(parsed.val) = 2
    /\ parsed.val[1].data # parsed.val[2].data
    /\ parsed.val[1].op = "Evicted"

(***************************************************************************)
(* C9.  parse() either panics or returns, for every match, an event whose  *)
(* time is exactly tv_sec seconds and tv_nsec nanoseconds after the epoch: *)
(* a field outside its range never yields an event.                        *)
(***************************************************************************)
\* the nine digits of a sub-second nanosecond count
Pad9(n) == [i \in 1..9 |-> (n \div (10 ^ (9 - i))) % 10]

\* a time after the epoch in nanoseconds, as a numeral
NanosSinceEpoch(t) == Normalize(t.secs \o Pad9(t.nanos))

\* tv_sec * 10^9 + tv_nsec for two captured digit strings
CapturedNanos(tv_sec, tv_nsec) ==
    DecAdd(Normalize(tv_sec \o Pad9(0)), Normalize(tv_nsec))

IsAscii(cap) == \A i \in 1..Len(cap) : cap[i] # NonAsciiDigit

\* every match became an exact event, its nanosecond field being at most
\* nsec_max and its other fields fitting 64 bits
ExactEvents(nsec_max) ==
    \A i \in 1..Len(CapturesIter(block.text)) :
        LET cap == CapturesIter(block.text)[i]
        IN  /\ i <= Len(parsed.val)
            /\ IsAscii(cap.sst) /\ DecLeq(Normalize(cap.sst), U64_MAX)
            /\ IsAscii(cap.blk) /\ DecLeq(Normalize(cap.blk), U64_MAX)
            /\ IsAscii(cap.tv_sec) /\ DecLeq(Normalize(cap.tv_sec), U64_MAX)
            /\ IsAscii(cap.tv_nsec)
            /\ DecLeq(Normalize(cap.tv_nsec), nsec_max)
            /\ parsed.val[i].time.nanos \in 0..999999999
            /\ NanosSinceEpoch(parsed.val[i].time)
                  = CapturedNanos(cap.tv_sec, cap.tv_nsec)

\* the claim as stated: a nanosecond field above 999,999,999 is fatal
C9_NanosAbove999999999Fatal ==
    (/\ pc = "returned"
     /\ block.evicted \/ block.missed
     /\ parsed.ok)
    => ExactEvents(Nines)

\* C9 as amended: a nanosecond field is fatal above 4,294,967,295; from
\* 1,000,000,000 to 4,294,967,295 its whole seconds are carried into the
\* seconds of the event, whose time is still exact
C9_ExactTimeOrPanic ==
    (/\ pc = "returned"
     /\ block.evicted \/ block.missed
     /\ parsed.ok)
    => ExactEvents(U32_MAX)

\* 5 s and 4,294,967,295 ns became 9.294967295 s
C9_Witness ==
    /\ pc = "returned"
    /\ parsed.ok
    /\ Len(parsed.val) = 1
    /\ CapturesIter(block.text)[1].tv_nsec = U32_MAX
    /\ parsed.val[1].time = [secs |-> <<9>>, nanos |-> 294967295]

(***************************************************************************)
(* C10.  A miss is reported Inverted exactly when its key has an Evicted   *)
(* event and all Evicted events of the key are later than the miss; when   *)
(* one of them is at or before the miss, the miss is Resolved against the  *)
(* earliest of them, whatever later evictions there are.                   *)
(***************************************************************************)
EvictionTimes(k) == {records[i].time : i \in EvictionsOf(k)}

C10_InvertedIffAllEvictionsLater ==
    pc = "done" =>
        /\ Len(MissLines) = Len(Misses)
        /\ \A n \in 1..Len(Misses) :
              LET t_miss == Misses[n].time
                  ev == EvictionTimes(KeyOf(Misses[n].data))
              IN  /\ MissLines[n].kind = "Inverted"
                        <=> /\ ev # {}
                            /\ \A t \in ev : TimeLess(t_miss, t)
                  /\ (\E t \in ev : TimeLeq(t, t_miss))
                        => /\ MissLines[n].kind = "Resolved"
                           /\ \E t \in ev :
                                 /\ \A u \in ev : TimeLeq(t, u)
                                 /\ TimePlus(t, MissLines[n].delta) = t_miss

\* a miss between two evictions of its key, resolved against the earlier
C10_Witness ==
    /\ pc = "done"
    /\ \E n \in 1..Len(Misses) :
          /\ \E t \in EvictionTimes(KeyOf(Misses[n].data)) :
                TimeLess(Misses[n].time, t)
          /\ \E t \in EvictionTimes(KeyOf(Misses[n].data)) :
                TimeLess(t, Misses[n].time)
          /\ MissLines[n].kind = "Resolved"

====
